---------------------------- MODULE Spec2Model ----------------------------
(***************************************************************************)
(* Model of the read path of the ops dashboard: the four page controllers  *)
(* (tenant list, tenant users, user overview, dashboard), the home page,   *)
(* the links that lead from one page to the next, and the pure helpers     *)
(* they use (numeric conversion of query values, display truncation,       *)
(* bar-chart shaping, percent-encoding of path parameters).                *)
(*                                                                         *)
(* JavaScript values are tagged records; JavaScript strings are sequences  *)
(* of one-character strings (UTF-16 code units).                           *)
(***************************************************************************)
EXTENDS Integers, Sequences, FiniteSets, TLC

(***************************************************************************)
(* Bounds of the model.                                                    *)
(***************************************************************************)
MaxRenders == 2
MaxQueryLen == 2
MaxItems == 2
MaxBars == 1
MaxRows == 1
MaxStrLen == 202
MaxAttempts == 3
MaxFeatures == 3

(***************************************************************************)
(* JavaScript values.                                                      *)
(***************************************************************************)
Undefined == [t |-> "undefined"]
Null == [t |-> "null"]
NaN == [t |-> "NaN"]
Num(n) == [t |-> "number", v |-> n]
Str(s) == [t |-> "string", s |-> s]
Arr(items) == [t |-> "array", items |-> items]

\* ToBoolean: undefined, null, NaN, 0 and "" are falsy; everything else truthy.
Truthy(x) ==
  CASE x.t = "undefined" -> FALSE
    [] x.t = "null" -> FALSE
    [] x.t = "NaN" -> FALSE
    [] x.t = "number" -> x.v # 0
    [] x.t = "string" -> x.s # <<>>
    [] OTHER -> TRUE

\* a || b
Or(a, b) == IF Truthy(a) THEN a ELSE b

\* a ?? b
Coalesce(a, b) == IF a.t \in {"undefined", "null"} THEN b ELSE a

DigitChars == <<"0", "1", "2", "3", "4", "5", "6", "7", "8", "9">>
IsDigit(c) == \E i \in 1..Len(DigitChars) : DigitChars[i] = c
DigitVal(c) == (CHOOSE i \in 1..Len(DigitChars) : DigitChars[i] = c) - 1

RECURSIVE DigitsVal(_)
DigitsVal(s) ==
  IF s = <<>> THEN 0
  ELSE DigitsVal(SubSeq(s, 1, Len(s) - 1)) * 10 + DigitVal(s[Len(s)])

AllDigits(s) == \A i \in 1..Len(s) : IsDigit(s[i])

\* StringToNumber on the strings the model draws (digits, '-', '+', letters;
\* no whitespace, '.', exponent or radix prefix): the empty string is 0, an
\* optionally signed run of decimal digits is its value, anything else NaN.
\* Negative zero is identified with 0.
StringToNumber(s) ==
  IF s = <<>> THEN Num(0)
  ELSE IF AllDigits(s) THEN Num(DigitsVal(s))
  ELSE IF s[1] \in {"-", "+"} /\ Len(s) > 1 /\ AllDigits(Tail(s))
    THEN Num(IF s[1] = "-" THEN 0 - DigitsVal(Tail(s)) ELSE DigitsVal(Tail(s)))
  ELSE NaN

\* Number(x)
Number(x) ==
  CASE x.t = "undefined" -> NaN
    [] x.t = "null" -> Num(0)
    [] x.t = "NaN" -> NaN
    [] x.t = "number" -> x
    [] x.t = "string" -> StringToNumber(x.s)
    [] OTHER -> NaN

\* All strings over alphabet A of length at most n.
RECURSIVE StringsUpTo(_, _)
StringsUpTo(A, n) ==
  IF n = 0 THEN {<<>>}
  ELSE LET shorter == StringsUpTo(A, n - 1)
       IN shorter \cup {Append(s, c) : s \in shorter, c \in A}

(***************************************************************************)
(* truncate (user overview page).                                          *)
(***************************************************************************)
TruncateMax == 200
\* The single code unit U+2026 (horizontal ellipsis).
Ellipsis == "U+2026"

Take(s, n) == SubSeq(s, 1, IF n < Len(s) THEN n ELSE Len(s))

truncateOffByOne(s, max) ==
  IF Len(s) < max THEN s ELSE Append(Take(s, max), Ellipsis)

truncate(s, max) ==
  IF Len(s) <= max THEN s ELSE Append(Take(s, max), Ellipsis)

(***************************************************************************)
(* encodeURIComponent / decodeURIComponent on the model's characters.      *)
(***************************************************************************)
Thrown == [t |-> "throw"]

\* Characters that encodeURIComponent escapes, with their escapes.
Escapes ==
  [c \in {"%", " ", "/", "+", "@", ":"} |->
     CASE c = "%" -> <<"%", "2", "5">>
       [] c = " " -> <<"%", "2", "0">>
       [] c = "/" -> <<"%", "2", "F">>
       [] c = "+" -> <<"%", "2", "B">>
       [] c = "@" -> <<"%", "4", "0">>
       [] c = ":" -> <<"%", "3", "A">>]

RECURSIVE encodeURIComponent(_)
encodeURIComponent(s) ==
  IF s = <<>> THEN <<>>
  ELSE (IF s[1] \in DOMAIN Escapes THEN Escapes[s[1]] ELSE <<s[1]>>)
         \o encodeURIComponent(Tail(s))

\* A well-formed escape at the head of s.
HeadEscape(s) ==
  IF Len(s) >= 3 /\ \E c \in DOMAIN Escapes : Escapes[c] = SubSeq(s, 1, 3)
  THEN {c \in DOMAIN Escapes : Escapes[c] = SubSeq(s, 1, 3)}
  ELSE {}

\* decodeURIComponent: the decoded string value, or Thrown (URIError) on a
\* '%' that does not start an escape. The escapes the model draws are those
\* of Escapes.
RECURSIVE decodeURIComponent(_)
decodeURIComponent(s) ==
  IF s = <<>> THEN Str(<<>>)
  ELSE IF s[1] = "%"
    THEN IF HeadEscape(s) = {} THEN Thrown
         ELSE LET rest == decodeURIComponent(SubSeq(s, 4, Len(s)))
              IN IF rest.t = "throw" THEN Thrown
                 ELSE Str(<<CHOOSE c \in HeadEscape(s) : TRUE>> \o rest.s)
  ELSE LET rest == decodeURIComponent(Tail(s))
       IN IF rest.t = "throw" THEN Thrown ELSE Str(<<s[1]>> \o rest.s)

(***************************************************************************)
(* State of the page renders.                                              *)
(***************************************************************************)
VARIABLES
  pc,        \* per render: "idle", "awaiting", "rendered", "failed"
  route,     \* per render: the route and query parameters it was invoked with
  locals,    \* per frame: the bindings made before the fetch await
  calls,     \* per render: the backend calls issued, in order
  fetches,   \* per render and client call: the state of its promise
  view,      \* per render: the rendered view model
  settled,   \* per render: the calls answered so far, in the order answered
  arg,       \* input of the truncation run
  result,    \* output of the truncation run
  email_attempts,  \* rows of public.email_attempts, in insertion order
  features,        \* rows of public.features, in insertion order
  latest_features  \* the last read of the view: the table read and the rows

renderVars == <<pc, route, locals, calls, fetches, view, settled>>
fnVars == <<arg, result>>
dbVars == <<email_attempts, features, latest_features>>
vars == <<pc, route, locals, calls, fetches, view, settled, arg, result,
          email_attempts, features, latest_features>>

RenderIds == 1..MaxRenders

FetchNames == {"fetchTenants", "fetchUsersByTenant", "fetchUserOverview", "fetchMetrics"}

NoRoute == [page |-> "none"]
\* The names a page function binds before its await, all unbound.
NoLocals ==
  [page |-> "none", tenantName |-> Undefined, q |-> Undefined, limit |-> Undefined,
   offset |-> Undefined, email |-> Undefined, days |-> Undefined]
NoView == [page |-> "none"]
NotIssued == [st |-> "none", val |-> Undefined]
Pending == [st |-> "pending", val |-> Undefined]

Call(fn, args) == [fn |-> fn, args |-> args]

\* The frame holding a render's bindings: every binding of a page function
\* is a const local to its invocation.
SharedFrame(r) == 1

Frame(r) == r

Init ==
  /\ pc = [r \in RenderIds |-> "idle"]
  /\ route = [r \in RenderIds |-> NoRoute]
  /\ locals = [r \in RenderIds |-> NoLocals]
  /\ calls = [r \in RenderIds |-> <<>>]
  /\ fetches = [r \in RenderIds |-> [f \in FetchNames |-> NotIssued]]
  /\ view = [r \in RenderIds |-> NoView]
  /\ settled = [r \in RenderIds |-> <<>>]
  /\ arg = Undefined
  /\ result = Undefined
  /\ email_attempts = <<>>
  /\ features = <<>>
  /\ latest_features = [of |-> <<>>, rows |-> <<>>]

\* The page function runs up to its await: it binds its locals and issues
\* the calls, whose promises are pending.
Issue(r, rt, bindings, issued) ==
  /\ pc[r] = "idle"
  /\ route' = [route EXCEPT ![r] = rt]
  /\ locals' = [locals EXCEPT ![Frame(r)] = bindings]
  /\ calls' = [calls EXCEPT ![r] = issued]
  /\ fetches' = [fetches EXCEPT ![r] =
       [f \in FetchNames |->
          IF \E i \in 1..Len(issued) : issued[i].fn = f THEN Pending ELSE NotIssued]]
  /\ pc' = [pc EXCEPT ![r] = "awaiting"]
  /\ UNCHANGED <<view, settled, fnVars, dbVars>>

\* The page function throws before its await (the invocation rejects).
ThrowEarly(r, rt) ==
  /\ pc[r] = "idle"
  /\ route' = [route EXCEPT ![r] = rt]
  /\ pc' = [pc EXCEPT ![r] = "failed"]
  /\ UNCHANGED <<locals, calls, fetches, view, settled, fnVars, dbVars>>

(***************************************************************************)
(* Awaiting the calls.                                                     *)
(***************************************************************************)
Issued(r) == {f \in FetchNames : fetches[r][f].st # "none"}

\* The calls of render r not answered yet.
InFlight(r) == {f \in FetchNames : fetches[r][f].st = "pending"}

\* An await that only ever hears of fulfilment.
JoinedFulfilOnly(r) ==
  IF \A f \in Issued(r) : fetches[r][f].st = "fulfilled" THEN "fulfilled" ELSE "pending"

\* The promise a page awaits: one call, or Promise.all of two. It rejects as
\* soon as one input rejects and fulfils when every input has fulfilled.
Joined(r) ==
  IF \E f \in Issued(r) : fetches[r][f].st = "rejected" THEN "rejected"
  ELSE IF \A f \in Issued(r) : fetches[r][f].st = "fulfilled" THEN "fulfilled"
  ELSE "pending"

\* A pending call of render r resolves with a payload.
Fulfil(r, f, payload) ==
  /\ fetches[r][f].st = "pending"
  /\ fetches' = [fetches EXCEPT ![r][f] = [st |-> "fulfilled", val |-> payload]]
  /\ settled' = [settled EXCEPT ![r] = Append(@, f)]
  /\ UNCHANGED <<pc, route, locals, calls, view, fnVars, dbVars>>

\* A pending call of render r fails (backend unreachable, non-success status).
Reject(r, f) ==
  /\ fetches[r][f].st = "pending"
  /\ fetches' = [fetches EXCEPT ![r][f] = [st |-> "rejected", val |-> Undefined]]
  /\ settled' = [settled EXCEPT ![r] = Append(@, f)]
  /\ UNCHANGED <<pc, route, locals, calls, view, fnVars, dbVars>>

\* A controller that issues the rejected calls again and keeps waiting.
RetryOnRejected(r) ==
  /\ calls' = [calls EXCEPT ![r] =
       calls[r] \o SelectSeq(calls[r], LAMBDA c : fetches[r][c.fn].st = "rejected")]
  /\ fetches' = [fetches EXCEPT ![r] =
       [f \in FetchNames |-> IF fetches[r][f].st = "rejected" THEN Pending ELSE fetches[r][f]]]
  /\ UNCHANGED <<pc, view>>

\* A controller that catches the rejection and renders what it has.
RenderOnRejected(r) ==
  /\ pc' = [pc EXCEPT ![r] = "rendered"]
  /\ view' = [view EXCEPT ![r] = [page |-> route[r].page, partial |-> TRUE]]
  /\ UNCHANGED <<calls, fetches>>

\* No page has a try/catch around its await: the rejection is the outcome of
\* the page function, nothing is rendered and nothing is issued again.
OnRejected(r) ==
  /\ pc' = [pc EXCEPT ![r] = "failed"]
  /\ UNCHANGED <<calls, fetches, view>>

\* The await throws.
Fail(r) ==
  /\ pc[r] = "awaiting"
  /\ Joined(r) = "rejected"
  /\ OnRejected(r)
  /\ UNCHANGED <<route, locals, settled, fnVars, dbVars>>

\* The await returns and the rest of the page function runs to its end:
\* it returns the view v, or throws when v is Thrown.
Finish(r, v) ==
  /\ pc' = [pc EXCEPT ![r] = IF v = Thrown THEN "failed" ELSE "rendered"]
  /\ view' = [view EXCEPT ![r] = IF v = Thrown THEN NoView ELSE v]
  /\ UNCHANGED <<route, locals, calls, fetches, settled, fnVars, dbVars>>

\* The framework drops a finished render; the next page load starts afresh.
Discard(r) ==
  /\ pc[r] \in {"rendered", "failed"}
  /\ pc' = [pc EXCEPT ![r] = "idle"]
  /\ route' = [route EXCEPT ![r] = NoRoute]
  /\ locals' = [locals EXCEPT ![Frame(r)] = NoLocals]
  /\ calls' = [calls EXCEPT ![r] = <<>>]
  /\ fetches' = [fetches EXCEPT ![r] = [f \in FetchNames |-> NotIssued]]
  /\ view' = [view EXCEPT ![r] = NoView]
  /\ settled' = [settled EXCEPT ![r] = <<>>]
  /\ UNCHANGED <<fnVars, dbVars>>

(***************************************************************************)
(* Home page.                                                              *)
(***************************************************************************)
HomeRoute == [page |-> "home", seg |-> Undefined, sp |-> <<>>]

HomeView == [page |-> "home", links |-> <<"/tenants">>]

\* Home is synchronous and calls nothing.
InvokeHome(r) ==
  /\ pc[r] = "idle"
  /\ route' = [route EXCEPT ![r] = HomeRoute]
  /\ pc' = [pc EXCEPT ![r] = "rendered"]
  /\ view' = [view EXCEPT ![r] = HomeView]
  /\ UNCHANGED <<locals, calls, fetches, settled, fnVars, dbVars>>

(***************************************************************************)
(* Tenant list page.                                                       *)
(***************************************************************************)
TenantsRoute == [page |-> "tenants", seg |-> Undefined, sp |-> <<>>]

Chars(x) == x.s

\* A row whose link carries the tenant name as it is.
TenantRowRaw(t) ==
  [kind |-> "tenant",
   tenantName |-> t.tenantName,
   count |-> t.count,
   href |-> <<"/tenants/">> \o Chars(t.tenantName) \o <<"/users">>]

TenantRow(t) ==
  [kind |-> "tenant",
   tenantName |-> t.tenantName,
   count |-> t.count,
   href |-> <<"/tenants/">> \o encodeURIComponent(Chars(t.tenantName)) \o <<"/users">>]

TenantsPlaceholder == [kind |-> "placeholder", colSpan |-> 3, text |-> "No tenants found."]

TenantsView(data) ==
  LET tenants == IF Truthy(data.tenants) THEN data.tenants.items ELSE <<>>
  IN [page |-> "tenants",
      total_users |-> data.total_users,
      rows |-> IF Len(tenants) = 0 THEN <<TenantsPlaceholder>>
               ELSE [i \in 1..Len(tenants) |-> TenantRow(tenants[i])]]

InvokeTenants(r) ==
  Issue(r, TenantsRoute, [NoLocals EXCEPT !.page = "tenants"],
        <<Call("fetchTenants", <<>>)>>)

ResumeTenants(r) ==
  /\ pc[r] = "awaiting"
  /\ route[r].page = "tenants"
  /\ Joined(r) = "fulfilled"
  /\ Finish(r, TenantsView(fetches[r]["fetchTenants"].val))

(***************************************************************************)
(* Tenant users page.                                                      *)
(***************************************************************************)
DefaultLimit == 50
DefaultOffset == 0

\* Template-literal interpolation of a string-or-absent value.
ToChars(x) ==
  CASE x.t = "string" -> x.s
    [] x.t = "undefined" -> <<"u", "n", "d", "e", "f", "i", "n", "e", "d">>
    [] x.t = "null" -> <<"n", "u", "l", "l">>
    [] OTHER -> <<"?">>

RECURSIVE TrimStart(_)
TrimStart(s) == IF s # <<>> /\ s[1] = " " THEN TrimStart(Tail(s)) ELSE s

RECURSIVE TrimEnd(_)
TrimEnd(s) ==
  IF s # <<>> /\ s[Len(s)] = " " THEN TrimEnd(SubSeq(s, 1, Len(s) - 1)) ELSE s

Trim(s) == TrimEnd(TrimStart(s))

\* Number(sp?.limit || 50), Number(sp?.offset || 0)
ResolveNumber(raw, default) == Number(Or(raw, Num(default)))

\* Bindings whose tenant name is decoded a second time.
TenantUsersBindingsDecodedTwice(rt) ==
  LET once == decodeURIComponent(rt.seg)
  IN [NoLocals EXCEPT
        !.page = "tenantUsers",
        !.tenantName = IF once = Thrown THEN Thrown ELSE decodeURIComponent(once.s),
        !.q = Or(rt.sp.q, Str(<<>>)),
        !.limit = ResolveNumber(rt.sp.limit, DefaultLimit),
        !.offset = ResolveNumber(rt.sp.offset, DefaultOffset)]

TenantUsersBindings(rt) ==
  [NoLocals EXCEPT
     !.page = "tenantUsers",
     !.tenantName = decodeURIComponent(rt.seg),
     !.q = Or(rt.sp.q, Str(<<>>)),
     !.limit = ResolveNumber(rt.sp.limit, DefaultLimit),
     !.offset = ResolveNumber(rt.sp.offset, DefaultOffset)]

InvokeTenantUsers(r, rt) ==
  LET b == TenantUsersBindings(rt)
  IN IF b.tenantName = Thrown THEN ThrowEarly(r, rt)
     ELSE Issue(r, rt, b,
            <<Call("fetchUsersByTenant", <<b.tenantName, b.q, b.limit, b.offset>>)>>)

\* A placeholder cell one column short of the table.
UsersPlaceholderNarrow == [kind |-> "placeholder", colSpan |-> 3, text |-> "No users found."]

UsersPlaceholder == [kind |-> "placeholder", colSpan |-> 4, text |-> "No users found."]

UserRow(u) ==
  LET email == Or(u.email, Str(<<>>))
      full == Trim(ToChars(Or(u.first_name, Str(<<>>))) \o <<" ">>
                     \o ToChars(Or(u.last_name, Str(<<>>))))
  IN [kind |-> "user",
      email |-> email,
      name |-> Or(u.name, Str(full)),
      tenant |-> Or(u.tenantName, Str(<<>>)),
      href |-> IF Truthy(email)
               THEN <<"/users/">> \o encodeURIComponent(ToChars(email))
               ELSE <<"#">>,
      action |-> IF Truthy(email) THEN "Overview" ELSE "N/A"]

\* A search form that also carries the paging of the page it is on.
SearchFormFieldsPaged == {"q", "limit", "offset"}

\* The named controls of the search form: the one text input.
SearchFormFields == {"q"}

\* Showing {data.count} of {data.total}
ShowingCount(data) == data.count

TenantUsersView(b, data) ==
  [page |-> "tenantUsers",
   title |-> b.tenantName,
   formQ |-> b.q,
   formFields |-> SearchFormFields,
   columns |-> <<"Email", "Name", "Tenant", "Actions">>,
   rows |-> IF Len(Or(data.items, Arr(<<>>)).items) = 0 THEN <<UsersPlaceholder>>
            ELSE [i \in 1..Len(data.items.items) |-> UserRow(data.items.items[i])],
   count |-> ShowingCount(data),
   total |-> data.total]

ResumeTenantUsers(r) ==
  /\ pc[r] = "awaiting"
  /\ route[r].page = "tenantUsers"
  /\ Joined(r) = "fulfilled"
  /\ Finish(r, TenantUsersView(locals[Frame(r)], fetches[r]["fetchUsersByTenant"].val))

(***************************************************************************)
(* User overview page.                                                     *)
(***************************************************************************)
Dict(entries) == [t |-> "dict", entries |-> entries]

RECURSIVE NatToChars(_)
NatToChars(n) ==
  IF n < 10 THEN <<DigitChars[n + 1]>>
  ELSE NatToChars(n \div 10) \o <<DigitChars[(n % 10) + 1]>>

\* Number::toString for the integers of the model.
NumToChars(n) == IF n < 0 THEN <<"-">> \o NatToChars(0 - n) ELSE NatToChars(n)

Quote(s) == <<"\"">> \o s \o <<"\"">>

\* JSON.stringify: undefined for undefined, otherwise the serialization.
\* The model's strings hold no character that JSON escapes.
RECURSIVE JSONStringify(_)
RECURSIVE JSONEntries(_, _)
JSONEntries(es, first) ==
  IF es = <<>> THEN <<>>
  ELSE LET v == JSONStringify(es[1][2])
       IN IF v.t = "undefined" THEN JSONEntries(Tail(es), first)
          ELSE (IF first THEN <<>> ELSE <<",">>) \o Quote(es[1][1]) \o <<":">> \o v.s
                 \o JSONEntries(Tail(es), FALSE)

JSONStringify(x) ==
  CASE x.t = "undefined" -> Undefined
    [] x.t = "null" -> Str(<<"n", "u", "l", "l">>)
    [] x.t = "NaN" -> Str(<<"n", "u", "l", "l">>)
    [] x.t = "number" -> Str(NumToChars(x.v))
    [] x.t = "string" -> Str(Quote(x.s))
    [] x.t = "dict" -> Str(<<"{">> \o JSONEntries(x.entries, TRUE) \o <<"}">>)
    [] OTHER -> Undefined

\* truncate(JSON.stringify(v)): reading .length of undefined throws.
TruncatedJson(v) ==
  LET s == JSONStringify(v)
  IN IF s.t = "string" THEN Str(truncate(s.s, TruncateMax)) ELSE Thrown

formatDate(x) == [t |-> "formatted", of |-> x]

\* A list handed on back to front.
ItemsReversed(a) ==
  LET s == Or(a, Arr(<<>>)).items IN [i \in 1..Len(s) |-> s[Len(s) + 1 - i]]

Items(a) == Or(a, Arr(<<>>)).items

RunRow(r) ==
  [id |-> r.id, status |-> Or(r.status, Str(<<>>)),
   started |-> formatDate(r.started_at), finished |-> formatDate(r.finished_at)]

EventRow(e) ==
  [time |-> formatDate(e.occurred_at), type |-> e.event_type,
   json |-> TruncatedJson(e.payload)]

DecisionRow(d) ==
  [time |-> formatDate(d.decided_at), rule |-> d.rule, decision |-> d.decision,
   json |-> TruncatedJson(d.rationale)]

AttemptRow(a) ==
  [template |-> a.template_key, stage |-> a.stage, status |-> a.status,
   reason |-> Or(a.reason, Str(<<>>)), created |-> formatDate(a.created_at)]

FeatureRow(f) ==
  [name |-> f.name, json |-> TruncatedJson(f.value),
   computed |-> formatDate(f.computed_at)]

Placeholder(n, text) == [kind |-> "placeholder", colSpan |-> n, text |-> text]

\* A table body without the empty-state row.
TableBare(rows, n, text) == rows

\* rows.length === 0 ? <placeholder row> : rows
Table(rows, n, text) == IF Len(rows) = 0 THEN <<Placeholder(n, text)>> ELSE rows

Throws(rows) ==
  \E i \in 1..Len(rows) : "json" \in DOMAIN rows[i] /\ rows[i].json = Thrown

LatestRunSection(d) ==
  [run |-> [id |-> d.latest_run.id, status |-> d.latest_run.status,
            started |-> formatDate(d.latest_run.started_at),
            finished |-> formatDate(d.latest_run.finished_at)],
   events |-> Table([i \in 1..Len(Items(d.latest_run_events)) |->
                       EventRow(Items(d.latest_run_events)[i])], 3, "No events."),
   decisions |-> Table([i \in 1..Len(Items(d.latest_run_decisions)) |->
                          DecisionRow(Items(d.latest_run_decisions)[i])], 4, "No decisions."),
   attempts |-> Table([i \in 1..Len(Items(d.latest_run_email_attempts)) |->
                         AttemptRow(Items(d.latest_run_email_attempts)[i])], 5, "No attempts."),
   features |-> Table([i \in 1..Len(Items(d.latest_run_features)) |->
                         FeatureRow(Items(d.latest_run_features)[i])], 3, "No features.")]

NoSection == [absent |-> TRUE]

EmptyOverview ==
  [t |-> "object", user |-> Undefined, runs |-> Undefined, latest_run |-> Undefined,
   latest_run_events |-> Undefined, latest_run_decisions |-> Undefined,
   latest_run_email_attempts |-> Undefined, latest_run_features |-> Undefined]

\* {latest_run ? <section> : null}
SectionOf(d) == IF Truthy(d.latest_run) THEN LatestRunSection(d) ELSE NoSection

UserOverviewView(b, data) ==
  LET d == Or(data, EmptyOverview)
      section == SectionOf(d)
  IN IF section # NoSection
        /\ (Throws(section.events) \/ Throws(section.decisions) \/ Throws(section.features))
     THEN Thrown
     ELSE [page |-> "userOverview",
           userEmail |-> IF d.user.t \in {"undefined", "null"} THEN Undefined
                         ELSE d.user.email,
           runs |-> Table([i \in 1..Len(Items(d.runs)) |-> RunRow(Items(d.runs)[i])],
                          4, "No runs found."),
           section |-> section]

UserOverviewBindings(rt) ==
  [NoLocals EXCEPT !.page = "userOverview", !.email = decodeURIComponent(rt.seg)]

\* A page function that also records the visit on the latest run.
InvokeUserOverviewMarking(r, rt) ==
  LET b == UserOverviewBindings(rt)
  IN IF b.email = Thrown THEN ThrowEarly(r, rt)
     ELSE Issue(r, rt, b, <<Call("fetchUserOverview", <<b.email>>),
                            Call("updateRunStatus", <<b.email, Str(<<"s", "e", "e", "n">>)>>)>>)

InvokeUserOverview(r, rt) ==
  LET b == UserOverviewBindings(rt)
  IN IF b.email = Thrown THEN ThrowEarly(r, rt)
     ELSE Issue(r, rt, b, <<Call("fetchUserOverview", <<b.email>>)>>)

ResumeUserOverview(r) ==
  /\ pc[r] = "awaiting"
  /\ route[r].page = "userOverview"
  /\ Joined(r) = "fulfilled"
  /\ Finish(r, UserOverviewView(locals[Frame(r)], fetches[r]["fetchUserOverview"].val))

(***************************************************************************)
(* Dashboard page.                                                         *)
(***************************************************************************)
DefaultDays == 7

\* String(n)
NumberToString(n) ==
  IF n.t = "number" THEN Str(NumToChars(n.v)) ELSE Str(<<"N", "a", "N">>)

\* A template literal, kept as its parts in order.
Template(parts) == [t |-> "template", parts |-> parts]

\* The tenant filter forwarded as parsed, the empty string included.
TenantArgRaw(tenantName) == tenantName

\* tenantName || undefined
TenantArg(tenantName) == Or(tenantName, Undefined)

DashboardBindings(rt) ==
  [NoLocals EXCEPT
     !.page = "dashboard",
     !.days = Number(Coalesce(rt.sp.days, Num(DefaultDays))),
     !.tenantName = Coalesce(rt.sp.tenantName, Str(<<>>))]

\* A page function that asks for the tenants and waits for them before it
\* asks for anything else.
InvokeDashboardSequential(r, rt) ==
  Issue(r, rt, DashboardBindings(rt), <<Call("fetchTenants", <<>>)>>)

InvokeDashboard(r, rt) ==
  LET b == DashboardBindings(rt)
  IN Issue(r, rt, b,
       <<Call("fetchTenants", <<>>),
         Call("fetchMetrics", <<[days |-> b.days, tenantName |-> TenantArg(b.tenantName)]>>)>>)

\* Number(x.c || 0)
CountOf(x) == Number(Or(x.c, Num(0)))

DecisionBar(d) == [name |-> d.rule, value |-> CountOf(d)]

AttemptBar(a) ==
  [name |-> Str(ToChars(a.template_key) \o <<":">> \o ToChars(a.status)),
   value |-> CountOf(a)]

TenantOption(t) == [value |-> t.tenantName, label |-> <<t.tenantName, t.count>>]

AllTenantsOption == [value |-> Str(<<>>), label |-> <<"All tenants">>]

KpiCard(label, value, hint) ==
  [label |-> label, value |-> value,
   hint |-> IF Truthy(hint) THEN hint ELSE Undefined]

Hint(days, value) == Template(<<"Last ", days, "d: ", value>>)

\* The ranges the date-range select offers.
DaysOptions == <<7, 14, 30>>

DashboardView(b, tenantsResp, metrics) ==
  [page |-> "dashboard",
   tenantOptions |-> <<AllTenantsOption>>
     \o [i \in 1..Len(Items(tenantsResp.tenants)) |-> TenantOption(Items(tenantsResp.tenants)[i])],
   tenantDefault |-> b.tenantName,
   daysOptions |-> DaysOptions,
   daysDefault |-> NumberToString(b.days),
   kpis |-> <<KpiCard("Total Users", metrics.kpis.total_users, Undefined),
              KpiCard("Active Users (7d)", metrics.kpis.active_users_7d, Undefined),
              KpiCard("Runs (24h)", metrics.kpis.runs_24h, Hint(b.days, metrics.kpis.runs_7d)),
              KpiCard("Events (24h)", metrics.kpis.events_24h, Hint(b.days, metrics.kpis.events_7d)),
              KpiCard("Decisions (24h)", metrics.kpis.decisions_24h,
                      Hint(b.days, metrics.kpis.decisions_7d)),
              KpiCard("Queued Attempts (24h)", metrics.kpis.queued_attempts_24h,
                      Hint(b.days, metrics.kpis.queued_attempts_7d))>>,
   lines |-> <<metrics.series.runs_by_day, metrics.series.events_by_day,
               metrics.series.decisions_by_day>>,
   decisionsByRule |->
     [i \in 1..Len(Items(metrics.distributions.decisions_by_rule)) |->
        DecisionBar(Items(metrics.distributions.decisions_by_rule)[i])],
   attemptsByTplStatus |->
     [i \in 1..Len(Items(metrics.distributions.attempts_by_template_status)) |->
        AttemptBar(Items(metrics.distributions.attempts_by_template_status)[i])],
   footer |-> [days |-> metrics.filters.days,
               tenant |-> IF Truthy(metrics.filters.tenantName)
                          THEN metrics.filters.tenantName ELSE Str(<<>>)]]

ResumeDashboard(r) ==
  /\ pc[r] = "awaiting"
  /\ route[r].page = "dashboard"
  /\ Joined(r) = "fulfilled"
  /\ Finish(r, DashboardView(locals[Frame(r)], fetches[r]["fetchTenants"].val,
                             fetches[r]["fetchMetrics"].val))

(***************************************************************************)
(* Inputs: routes the pages are invoked with, payloads the backend sends.  *)
(***************************************************************************)
Acme == <<"a", "c", "m", "e">>
Spaced == <<"a", " ", "b">>
Mail == <<"a", "@", "b">>

\* Path segments as the router hands them over (percent-encoded).
RichSegments == {Acme, encodeURIComponent(Spaced), encodeURIComponent(Mail), <<"%">>}

NumAlphabet == {"0", "5", "-", "a"}
DaysAlphabet == {"0", "1", "3", "4", "7", "-", "a"}

\* A query parameter: absent, or a string.
QueryValues(A) == {Undefined} \cup {Str(s) : s \in StringsUpTo(A, MaxQueryLen)}

Sp(q, limit, offset) == [q |-> q, limit |-> limit, offset |-> offset]

TenantUsersRoute(seg, sp) == [page |-> "tenantUsers", seg |-> seg, sp |-> sp]

TenantUsersRoutes(rich) ==
  IF rich
  THEN {TenantUsersRoute(seg, Sp(Undefined, Undefined, Undefined)) : seg \in RichSegments}
       \cup {TenantUsersRoute(Acme, Sp(q, limit, offset)) :
               q \in {Undefined, Str(<<"a">>)},
               limit \in QueryValues(NumAlphabet),
               offset \in {Undefined, Str(<<"5">>)}}
       \cup {TenantUsersRoute(Acme, Sp(Undefined, limit, offset)) :
               limit \in {Undefined, Str(<<"5">>)},
               offset \in QueryValues(NumAlphabet)}
  ELSE {TenantUsersRoute(Acme, Sp(q, Undefined, Undefined)) : q \in {Undefined, Str(<<"a">>)}}

UserOverviewRoutes(rich) ==
  {[page |-> "userOverview", seg |-> seg, sp |-> <<>>] :
     seg \in IF rich THEN RichSegments ELSE {encodeURIComponent(Mail)}}

DashboardRoute(days, tenantName) ==
  [page |-> "dashboard", seg |-> Undefined, sp |-> [days |-> days, tenantName |-> tenantName]]

DashboardRoutes(rich) ==
  IF rich
  THEN {DashboardRoute(days, tenantName) :
          days \in QueryValues(DaysAlphabet),
          tenantName \in {Undefined, Str(<<>>), Str(Acme)}}
  ELSE {DashboardRoute(Undefined, Undefined), DashboardRoute(Str(<<"1", "4">>), Str(Acme))}

\* All sequences over S of length at most n.
RECURSIVE SeqsUpTo(_, _)
SeqsUpTo(S, n) ==
  IF n = 0 THEN {<<>>}
  ELSE LET shorter == SeqsUpTo(S, n - 1)
       IN shorter \cup {Append(s, x) : s \in shorter, x \in S}

TenantItems ==
  {[tenantName |-> Str(Acme), count |-> Num(2)],
   [tenantName |-> Str(Spaced), count |-> Num(1)]}

TenantsResponse(tenants) ==
  [t |-> "object", tenants |-> tenants, total_users |-> Num(3)]

TenantsResponses(rich) ==
  IF rich
  THEN {TenantsResponse(Undefined)}
       \cup {TenantsResponse(Arr(s)) : s \in SeqsUpTo(TenantItems, MaxItems)}
  ELSE {TenantsResponse(Arr(<<>>)),
        TenantsResponse(Arr(<<[tenantName |-> Str(Acme), count |-> Num(2)]>>))}

Users ==
  {[email |-> Str(Mail), name |-> Str(<<"A", "l">>), first_name |-> Undefined,
    last_name |-> Undefined, tenantName |-> Str(Acme)],
   [email |-> Undefined, name |-> Undefined, first_name |-> Str(<<"A">>),
    last_name |-> Undefined, tenantName |-> Undefined]}

\* count is the number of items returned, total the number of matches.
UsersResponse(items) ==
  [t |-> "object", items |-> items, count |-> Num(Len(Items(items))),
   total |-> Num(Len(Items(items)) + 1)]

UsersResponses(rich) ==
  IF rich
  THEN {UsersResponse(Null)} \cup {UsersResponse(Arr(s)) : s \in SeqsUpTo(Users, MaxItems)}
  ELSE {UsersResponse(Arr(<<>>)),
        UsersResponse(Arr(<<CHOOSE u \in Users : Truthy(u.email)>>))}

T1 == Str(<<"t", "1">>)

RunItem == [t |-> "object", id |-> Str(<<"r", "1">>), status |-> Str(<<"o", "k">>),
            started_at |-> T1, finished_at |-> Null]

\* JSON-valued fields: absent, null, a number, a string, {} and {"k":"x"}.
JsonValues ==
  {Undefined, Null, Num(7), Str(<<"x">>), Dict(<<>>), Dict(<<<<<<"k">>, Str(<<"x">>)>>>>)}

Events(rich) ==
  {[id |-> Num(1), occurred_at |-> T1, event_type |-> Str(<<"e">>), payload |-> p] :
     p \in IF rich THEN JsonValues ELSE {Dict(<<>>)}}

Decisions(rich) ==
  {[decided_at |-> T1, rule |-> Str(<<"r">>), decision |-> Str(<<"s">>), rationale |-> p] :
     p \in IF rich THEN JsonValues ELSE {Dict(<<>>)}}

Attempts ==
  {[template_key |-> Str(<<"k">>), stage |-> Str(<<"i">>), status |-> Str(<<"q">>),
    reason |-> Undefined, created_at |-> T1]}

Features(rich) ==
  {[name |-> Str(<<"f">>), value |-> p, computed_at |-> T1] :
     p \in IF rich THEN JsonValues ELSE {Num(7)}}

\* A list field: absent, or an array of at most MaxRows rows.
Lists(S) == {Undefined} \cup {Arr(s) : s \in SeqsUpTo(S, MaxRows)}

Overview(runs, latest, events, decisions, attempts, feats) ==
  [t |-> "object", user |-> [t |-> "object", email |-> Str(Mail)], runs |-> runs, latest_run |-> latest,
   latest_run_events |-> events, latest_run_decisions |-> decisions,
   latest_run_email_attempts |-> attempts, latest_run_features |-> feats]

LatestRuns == {Undefined, Null, RunItem}

OverviewResponses(rich) ==
  IF rich
  THEN {Null, Overview(Null, Null, Null, Null, Null, Null)}
       \cup {Overview(runs, latest, Undefined, Undefined, Undefined, Undefined) :
               runs \in Lists({RunItem}), latest \in LatestRuns}
       \cup {Overview(Arr(<<RunItem>>), latest, e, Undefined, Undefined, Undefined) :
               latest \in LatestRuns, e \in Lists(Events(TRUE))}
       \cup {Overview(Arr(<<RunItem>>), latest, Undefined, d, Undefined, Undefined) :
               latest \in LatestRuns, d \in Lists(Decisions(TRUE))}
       \cup {Overview(Arr(<<RunItem>>), latest, Undefined, Undefined, a, Undefined) :
               latest \in LatestRuns, a \in Lists(Attempts)}
       \cup {Overview(Arr(<<RunItem>>), latest, Undefined, Undefined, Undefined, f) :
               latest \in LatestRuns, f \in Lists(Features(TRUE))}
  ELSE {Overview(Arr(<<>>), Undefined, Undefined, Undefined, Undefined, Undefined),
        Overview(Arr(<<RunItem>>), RunItem, Arr(<<CHOOSE e \in Events(FALSE) : TRUE>>),
                 Arr(<<>>), Arr(<<>>), Arr(<<>>))}

\* A backend count field: missing, null, a number, a numeral, a non-numeric
\* string, the empty string.
CountValues ==
  {Undefined, Null, Num(0), Num(3), Str(<<"1", "2">>), Str(<<"a", "b">>), Str(<<>>)}

RuleCounts(rich) ==
  {[rule |-> Str(<<"r">>), c |-> c] : c \in IF rich THEN CountValues ELSE {Num(3)}}

TemplateCounts(rich) ==
  {[template_key |-> Str(k), status |-> Str(st), c |-> c] :
     k \in IF rich THEN {<<"a">>, <<"a", ":", "b">>} ELSE {<<"a">>},
     st \in IF rich THEN {<<"c">>, <<"b", ":", "c">>} ELSE {<<"c">>},
     c \in IF rich THEN CountValues ELSE {Num(3)}}

\* Series points as the metrics client hands them over: {day, c} with a
\* numeric count.
SeriesPoints == {[day |-> Str(<<"d", "1">>), c |-> Num(4)]}

Kpis ==
  [total_users |-> Num(9), active_users_7d |-> Num(5), runs_24h |-> Num(1),
   runs_7d |-> Num(6), events_24h |-> Num(2), events_7d |-> Num(8),
   decisions_24h |-> Num(0), decisions_7d |-> Num(3), queued_attempts_24h |-> Num(0),
   queued_attempts_7d |-> Num(4)]

\* The count of a kind over the last n days, for a backend whose activity is
\* the same every day: the *_7d field of the kind is its count over 7 days.
RangeCount(field, n) == Num((Kpis[field].v * n) \div 7)

Metrics(series, byRule, byTemplate) ==
  [t |-> "object", kpis |-> Kpis,
   series |-> [runs_by_day |-> series, events_by_day |-> series, decisions_by_day |-> series],
   distributions |-> [decisions_by_rule |-> byRule, attempts_by_template_status |-> byTemplate],
   filters |-> [days |-> Num(DefaultDays), tenantName |-> Null]]

BarLists(S) == {Undefined} \cup {Arr(s) : s \in SeqsUpTo(S, MaxBars)}

\* Template/status combinations with a plain count, keys and statuses that
\* hold the delimiter included.
KeyedCounts == {a \in TemplateCounts(TRUE) : a.c = Num(3)}

\* Two rules with different counts.
RankedRules == {[rule |-> Str(<<"r">>), c |-> Num(3)], [rule |-> Str(<<"q">>), c |-> Num(0)]}

MetricsResponses(rich) ==
  IF rich
  THEN {Metrics(Arr(s), Arr(<<>>), Arr(<<>>)) : s \in SeqsUpTo(SeriesPoints, MaxBars)}
       \cup {Metrics(Arr(<<>>), d, Undefined) : d \in BarLists(RuleCounts(TRUE))}
       \cup {Metrics(Arr(<<>>), Undefined, a) : a \in BarLists(TemplateCounts(TRUE))}
       \cup {Metrics(Arr(<<>>), Arr(s), Undefined) : s \in SeqsUpTo(RankedRules, MaxBars + 1)}
       \cup {Metrics(Arr(<<>>), Undefined, Arr(s)) : s \in SeqsUpTo(KeyedCounts, MaxBars + 1)}
  ELSE {Metrics(Arr(<<CHOOSE x \in SeriesPoints : TRUE>>),
                Arr(<<CHOOSE d \in RuleCounts(FALSE) : TRUE>>),
                Arr(<<CHOOSE a \in TemplateCounts(FALSE) : TRUE>>))}

Payloads(f, rich) ==
  CASE f = "fetchTenants" -> TenantsResponses(rich)
    [] f = "fetchUsersByTenant" -> UsersResponses(rich)
    [] f = "fetchUserOverview" -> OverviewResponses(rich)
    [] f = "fetchMetrics" -> MetricsResponses(rich)

(***************************************************************************)
(* Specifications.                                                         *)
(***************************************************************************)
\* One step of a render r, with the routes and payloads drawn widely or not.
Step(r, richRoutes, richPayloads) ==
  \/ InvokeHome(r)
  \/ InvokeTenants(r)
  \/ pc[r] = "idle" /\ \E rt \in TenantUsersRoutes(richRoutes) : InvokeTenantUsers(r, rt)
  \/ pc[r] = "idle" /\ \E rt \in UserOverviewRoutes(richRoutes) : InvokeUserOverview(r, rt)
  \/ pc[r] = "idle" /\ \E rt \in DashboardRoutes(richRoutes) : InvokeDashboard(r, rt)
  \/ \E f \in InFlight(r) : \E payload \in Payloads(f, richPayloads) : Fulfil(r, f, payload)
  \/ \E f \in FetchNames : Reject(r, f)
  \/ Fail(r)
  \/ ResumeTenants(r)
  \/ ResumeTenantUsers(r)
  \/ ResumeUserOverview(r)
  \/ ResumeDashboard(r)
  \/ Discard(r)

\* The strings of one repeated code unit, of every length up to MaxStrLen.
TruncateInputs ==
  {[i \in 1..n |-> c] : n \in 0..MaxStrLen, c \in {"a", Ellipsis}}

InitTruncate ==
  /\ pc = [r \in RenderIds |-> "idle"]
  /\ route = [r \in RenderIds |-> NoRoute]
  /\ locals = [r \in RenderIds |-> NoLocals]
  /\ calls = [r \in RenderIds |-> <<>>]
  /\ fetches = [r \in RenderIds |-> [f \in FetchNames |-> NotIssued]]
  /\ view = [r \in RenderIds |-> NoView]
  /\ settled = [r \in RenderIds |-> <<>>]
  /\ arg \in {Str(s) : s \in TruncateInputs}
  /\ result = Undefined
  /\ email_attempts = <<>>
  /\ features = <<>>
  /\ latest_features = [of |-> <<>>, rows |-> <<>>]

\* truncate(s) with the default max.
ApplyTruncate ==
  /\ result = Undefined
  /\ result' = Str(truncate(arg.s, TruncateMax))
  /\ UNCHANGED <<renderVars, arg, dbVars>>

\* A display string is cut, the default bound applying.
SpecTruncate == InitTruncate /\ [][ApplyTruncate]_vars

\* Concurrent page renders.
Next == \E r \in RenderIds : Step(r, FALSE, FALSE)

Spec == Init /\ [][Next]_vars

\* One page load at a time, over every query string of the bounds.
NextQueries == Step(1, TRUE, FALSE)

SpecQueries == Init /\ [][NextQueries]_vars

\* One page load at a time, over every backend payload of the bounds.
NextPayloads == Step(1, FALSE, TRUE)

SpecPayloads == Init /\ [][NextPayloads]_vars

(***************************************************************************)
(* Following the links of the rendered pages.                              *)
(***************************************************************************)
LinkAlphabet == {"%", "/", "+", " ", "2", "F"}

\* Tenant names and emails made of the characters the encoding escapes.
LinkNames == StringsUpTo(LinkAlphabet, MaxQueryLen) \ {<<>>}

LinkTenants ==
  {TenantsResponse(Arr(<<[tenantName |-> Str(n), count |-> Num(1)]>>)) : n \in LinkNames}

LinkUsers ==
  {UsersResponse(Arr(<<[email |-> Str(n), name |-> Undefined, first_name |-> Undefined,
                        last_name |-> Undefined, tenantName |-> Undefined]>>)) :
     n \in LinkNames}

LinkPayloads(f) ==
  CASE f = "fetchTenants" -> LinkTenants
    [] f = "fetchUsersByTenant" -> LinkUsers
    [] OTHER -> Payloads(f, FALSE)

\* The user follows the link of a row: the page is left for the link's URL.
Click(r) ==
  /\ pc[r] = "rendered"
  /\ route[r].page \in {"tenants", "tenantUsers"}
  /\ \E i \in 1..Len(view[r].rows) :
       /\ view[r].rows[i].kind \in {"tenant", "user"}
       /\ view[r].rows[i].href # <<"#">>
       /\ route' = [route EXCEPT ![r] = [page |-> "link", href |-> view[r].rows[i].href]]
  /\ pc' = [pc EXCEPT ![r] = "idle"]
  /\ locals' = [locals EXCEPT ![Frame(r)] = NoLocals]
  /\ calls' = [calls EXCEPT ![r] = <<>>]
  /\ fetches' = [fetches EXCEPT ![r] = [f \in FetchNames |-> NotIssued]]
  /\ view' = [view EXCEPT ![r] = NoView]
  /\ settled' = [settled EXCEPT ![r] = <<>>]
  /\ UNCHANGED <<fnVars, dbVars>>

\* The route a URL path matches, its dynamic segment as written in the URL.
RouteOf(href) ==
  IF href[1] = "/tenants/"
  THEN TenantUsersRoute(SubSeq(href, 2, Len(href) - 1), Sp(Undefined, Undefined, Undefined))
  ELSE [page |-> "userOverview", seg |-> SubSeq(href, 2, Len(href)), sp |-> <<>>]

\* The router invokes the page function of the URL the link led to.
Land(r) ==
  /\ pc[r] = "idle"
  /\ route[r].page = "link"
  /\ IF RouteOf(route[r].href).page = "tenantUsers"
     THEN InvokeTenantUsers(r, RouteOf(route[r].href))
     ELSE InvokeUserOverview(r, RouteOf(route[r].href))

\* From the tenant list to a tenant's users to a user's overview, by the
\* links the pages render.
NextLinks ==
  \/ InvokeTenants(1)
  \/ \E f \in InFlight(1) : \E payload \in LinkPayloads(f) : Fulfil(1, f, payload)
  \/ ResumeTenants(1)
  \/ ResumeTenantUsers(1)
  \/ ResumeUserOverview(1)
  \/ Click(1)
  \/ Land(1)
  \/ Discard(1)

SpecLinks == Init /\ [][NextLinks]_vars

(***************************************************************************)
(* Submitting the search form of the tenant users page.                    *)
(***************************************************************************)
\* What the user may type into the search box.
TypedQueries == {Str(<<>>), Str(<<"a">>), Str(Spaced)}

\* The query string of a GET submission: one parameter per named control of
\* the form, the text input with what was typed, any other control with the
\* value the page was loaded with.
FormQuery(fields, typed, sp) ==
  Sp(IF "q" \in fields THEN typed ELSE Undefined,
     IF "limit" \in fields THEN sp.limit ELSE Undefined,
     IF "offset" \in fields THEN sp.offset ELSE Undefined)

\* The user submits the search form (action="", method GET): the page is
\* left for its own path with the form's query string.
Submit(r, typed) ==
  /\ pc[r] = "rendered"
  /\ route[r].page = "tenantUsers"
  /\ route' = [route EXCEPT ![r] =
       [page |-> "form", seg |-> route[r].seg,
        sp |-> FormQuery(view[r].formFields, typed, route[r].sp),
        from |-> route[r].sp]]
  /\ pc' = [pc EXCEPT ![r] = "idle"]
  /\ locals' = [locals EXCEPT ![Frame(r)] = NoLocals]
  /\ calls' = [calls EXCEPT ![r] = <<>>]
  /\ fetches' = [fetches EXCEPT ![r] = [f \in FetchNames |-> NotIssued]]
  /\ view' = [view EXCEPT ![r] = NoView]
  /\ settled' = [settled EXCEPT ![r] = <<>>]
  /\ UNCHANGED <<fnVars, dbVars>>

\* The route of a submission, with the query string it left.
SubmittedRoute(rt) ==
  [page |-> "tenantUsers", seg |-> rt.seg, sp |-> rt.sp, from |-> rt.from]

\* The router invokes the page function for the submitted URL.
LandForm(r) ==
  /\ pc[r] = "idle"
  /\ route[r].page = "form"
  /\ InvokeTenantUsers(r, SubmittedRoute(route[r]))

\* Loads of the tenant users page with any query string, and searches from
\* the pages they render.
NextSearch ==
  \/ /\ pc[1] = "idle"
     /\ route[1].page # "form"
     /\ \E rt \in TenantUsersRoutes(TRUE) : InvokeTenantUsers(1, rt)
  \/ \E f \in InFlight(1) : \E payload \in Payloads(f, FALSE) : Fulfil(1, f, payload)
  \/ ResumeTenantUsers(1)
  \/ \E typed \in TypedQueries : Submit(1, typed)
  \/ LandForm(1)
  \/ Discard(1)

SpecSearch == Init /\ [][NextSearch]_vars

(***************************************************************************)
(* The database schema: column values, constraints, inserts.               *)
(***************************************************************************)
\* Column values are tagged by their SQL type; NULL is a value of its own.
SqlNull == [t |-> "null"]
Uuid(n) == [t |-> "uuid", v |-> n]
Text(s) == [t |-> "text", v |-> s]
Jsonb(n) == [t |-> "jsonb", v |-> n]
Timestamptz(n) == [t |-> "timestamptz", v |-> n]

\* The rows of a table.
Rows(table) == {table[i] : i \in DOMAIN table}

\* NOT NULL on the columns cols.
NotNull(row, cols) == \A c \in cols : row[c] # SqlNull

\* UNIQUE (cols): a new row conflicts with a row equal to it on every one of
\* the columns; NULL equals nothing, so a row with a NULL never conflicts.
Conflicts(row, table, cols) ==
  \E o \in Rows(table) :
    \A c \in cols : row[c] # SqlNull /\ o[c] # SqlNull /\ row[c] = o[c]

\* The ids in public.users, the keys in public.email_templates, the ids in
\* public.runs.
UserIds == {Uuid(1), Uuid(2)}
TemplateKeys == {Text("algebra_next_steps")}
RunIds == {Uuid(1)}

(***************************************************************************)
(* public.email_attempts                                                   *)
(***************************************************************************)
Stages == {Text("initial"), Text("followup_1")}

\* concat(user_id, template_key, stage)
UniqueKey(u, k, s) == Text(ToString(u.v) \o k.v \o s.v)

\* The unique_key values an insert may give: none, or the concatenation for
\* some user, template and stage.
UniqueKeys ==
  {SqlNull} \cup
  {UniqueKey(u, k, s) : u \in UserIds, k \in TemplateKeys, s \in Stages}

\* The columns of an attempt that bear on the constraints.
Attempt(id, u, k, s, uk) ==
  [id |-> id, user_id |-> u, template_key |-> k, stage |-> s,
   unique_key |-> uk]

\* INSERT INTO email_attempts (user_id, template_key, stage, unique_key):
\* accepted when the NOT NULL columns are given, the user and the template
\* exist, and unique_key is not taken; id is generated.
InsertAttempt(u, k, s, uk) ==
  LET row == Attempt(Uuid(Len(email_attempts) + 1), u, k, s, uk) IN
  /\ Len(email_attempts) < MaxAttempts
  /\ NotNull(row, {"id", "user_id", "template_key", "stage"})
  /\ u \in UserIds
  /\ k \in TemplateKeys
  /\ ~Conflicts(row, email_attempts, {"id"})
  /\ ~Conflicts(row, email_attempts, {"unique_key"})
  /\ email_attempts' = Append(email_attempts, row)
  /\ UNCHANGED <<renderVars, fnVars, features, latest_features>>

NextAttempts ==
  \E u \in UserIds \cup {SqlNull} :
    \E k \in TemplateKeys \cup {Text("unknown")} :
      \E s \in Stages \cup {SqlNull} :
        \E uk \in UniqueKeys : InsertAttempt(u, k, s, uk)

SpecAttempts == Init /\ [][NextAttempts]_vars

(***************************************************************************)
(* public.features and the view public.latest_features                     *)
(***************************************************************************)
FeatureNames == {Text("streak")}
FeatureValues == {Jsonb(1), Jsonb(2)}
Instants == {Timestamptz(1), Timestamptz(2)}

Feature(id, run, u, n, val, at) ==
  [id |-> id, run_id |-> run, user_id |-> u, name |-> n, value |-> val,
   computed_at |-> at]

\* INSERT INTO features (run_id, user_id, name, value, computed_at)
InsertFeature(run, u, n, val, at) ==
  LET row == Feature(Uuid(Len(features) + 1), run, u, n, val, at) IN
  /\ Len(features) < MaxFeatures
  /\ NotNull(row, {"id", "user_id", "name", "value", "computed_at"})
  /\ run \in RunIds \cup {SqlNull}
  /\ u \in UserIds
  /\ ~Conflicts(row, features, {"id"})
  /\ ~Conflicts(row, features, {"user_id", "name", "run_id"})
  /\ features' = Append(features, row)
  /\ UNCHANGED <<renderVars, fnVars, email_attempts, latest_features>>

\* The order of text values.
Collation == <<"score", "streak">>
TextLess(a, b) ==
  \E i, j \in DOMAIN Collation :
    i < j /\ Collation[i] = a.v /\ Collation[j] = b.v

\* ORDER BY user_id, name, computed_at, the oldest first.
PrecedesOldestFirst(a, b) ==
  \/ a.user_id.v < b.user_id.v
  \/ a.user_id = b.user_id /\ TextLess(a.name, b.name)
  \/ a.user_id = b.user_id /\ a.name = b.name
       /\ a.computed_at.v < b.computed_at.v

\* ORDER BY user_id, name, computed_at DESC: a is placed before b.
Precedes(a, b) ==
  \/ a.user_id.v < b.user_id.v
  \/ a.user_id = b.user_id /\ TextLess(a.name, b.name)
  \/ a.user_id = b.user_id /\ a.name = b.name
       /\ a.computed_at.v > b.computed_at.v

\* The orders a sort of the table may produce: rows the ORDER BY does not
\* tell apart come in any order.
SortedOrders(table) ==
  {[i \in DOMAIN table |-> table[p[i]]] : p \in
     {q \in Permutations(DOMAIN table) :
        \A i, j \in DOMAIN table :
          i < j => ~Precedes(table[q[j]], table[q[i]])}}

\* SELECT DISTINCT ON (user_id, name) user_id, name, value, computed_at:
\* of each run of rows equal on (user_id, name), the first.
RECURSIVE DistinctOn(_, _)
DistinctOn(sorted, i) ==
  IF i > Len(sorted) THEN <<>>
  ELSE (IF i > 1 /\ sorted[i].user_id = sorted[i - 1].user_id
             /\ sorted[i].name = sorted[i - 1].name
        THEN <<>>
        ELSE <<[user_id |-> sorted[i].user_id, name |-> sorted[i].name,
                value |-> sorted[i].value,
                computed_at |-> sorted[i].computed_at]>>)
       \o DistinctOn(sorted, i + 1)

\* SELECT * FROM latest_features, on the table as it is.
SelectLatestFeatures ==
  /\ \E sorted \in SortedOrders(features) :
       latest_features' = [of |-> features, rows |-> DistinctOn(sorted, 1)]
  /\ UNCHANGED <<renderVars, fnVars, email_attempts, features>>

NextFeatures ==
  \/ \E run \in RunIds \cup {SqlNull} :
       \E u \in UserIds :
         \E n \in FeatureNames \cup {SqlNull} :
           \E val \in FeatureValues :
             \E at \in Instants : InsertFeature(run, u, n, val, at)
  \/ SelectLatestFeatures

SpecFeatures == Init /\ [][NextFeatures]_vars

\* The renders followed to their end: the first and the last.
LiveRenders == {1, MaxRenders}

\* The backend answers call f of render r, with a payload or a failure.
Settle(r, f) ==
  \/ \E payload \in Payloads(f, FALSE) : Fulfil(r, f, payload)
  \/ Reject(r, f)

\* The continuation of render r's await runs.
Continue(r) ==
  \/ Fail(r)
  \/ ResumeTenants(r)
  \/ ResumeTenantUsers(r)
  \/ ResumeUserOverview(r)
  \/ ResumeDashboard(r)

\* Every backend call is answered in the end, and the event loop runs the
\* continuation of a settled await.
Fairness ==
  \A r \in LiveRenders :
    /\ \A f \in FetchNames : WF_vars(Settle(r, f))
    /\ WF_vars(Continue(r))

\* Two page loads running concurrently.
NextLive == \E r \in LiveRenders : Step(r, FALSE, FALSE)

\* Concurrent page loads whose backend calls are all answered in the end.
SpecLive == Init /\ [][NextLive]_vars /\ Fairness

(***************************************************************************)
(* Properties.                                                             *)
(***************************************************************************)
Done(r) == pc[r] \in {"rendered", "failed"}

OnPage(r, page) == route[r].page = page

NonNegInt(x) == x.t = "number" /\ x.v >= 0

\* The arguments of the calls render r made to fn.
ArgsOf(r, fn) == {calls[r][i].args : i \in {j \in 1..Len(calls[r]) : calls[r][j].fn = fn}}

Response(r, f) == fetches[r][f].val

\* C1: the limit and offset passed to fetchUsersByTenant are non-negative
\* integers, the defaults 50 and 0 when the query value is absent; a negative
\* or NaN value is never passed.
C1_LimitOffsetNeverRaw ==
  \A r \in RenderIds : \A a \in ArgsOf(r, "fetchUsersByTenant") :
    /\ NonNegInt(a[3])
    /\ NonNegInt(a[4])
    /\ (route[r].sp.limit = Undefined => a[3] = Num(DefaultLimit))
    /\ (route[r].sp.offset = Undefined => a[4] = Num(DefaultOffset))

\* A count field that is missing or does not convert to a number.
MissingOrNonNumeric(c) == c.t \in {"undefined", "null"} \/ Number(c) = NaN

BarsShaped(bars, entries) ==
  \A i \in 1..Len(bars) :
    /\ bars[i].value.t = "number"
    /\ (MissingOrNonNumeric(entries[i].c) => bars[i].value = Num(0))

\* C2: in a rendered dashboard every bar value and every series count is a
\* number, and a bar value is 0 when the backend count was missing or
\* non-numeric.
C2_CountsAreNumbers ==
  \A r \in RenderIds :
    (OnPage(r, "dashboard") /\ pc[r] = "rendered") =>
      LET m == Response(r, "fetchMetrics")
      IN /\ BarsShaped(view[r].decisionsByRule, Items(m.distributions.decisions_by_rule))
         /\ BarsShaped(view[r].attemptsByTplStatus,
                       Items(m.distributions.attempts_by_template_status))
         /\ \A k \in 1..Len(view[r].lines) :
              \A i \in 1..Len(Items(view[r].lines[k])) :
                Items(view[r].lines[k])[i].c.t = "number"

BothFulfilled(r) ==
  /\ fetches[r]["fetchTenants"].st = "fulfilled"
  /\ fetches[r]["fetchMetrics"].st = "fulfilled"

\* C3: a dashboard is rendered only when both the tenants and the metrics
\* call have succeeded; when either has failed nothing is rendered and the
\* finished render is a failure.
C3_JoinAllOrNothing ==
  \A r \in RenderIds :
    OnPage(r, "dashboard") =>
      /\ (pc[r] = "rendered" \/ view[r] # NoView) => BothFulfilled(r)
      /\ (Done(r) /\ ~BothFulfilled(r)) => (pc[r] = "failed" /\ view[r] = NoView)

C3_Witness ==
  \E r \in RenderIds :
    /\ OnPage(r, "dashboard")
    /\ pc[r] = "failed"
    /\ fetches[r]["fetchTenants"].st = "fulfilled"
    /\ fetches[r]["fetchMetrics"].st = "rejected"

\* C4: truncate with the default bound returns a string of at most 200 code
\* units unchanged, and cuts a longer one to its first 200 code units
\* followed by one ellipsis.
C4_TruncateAt200 ==
  result # Undefined =>
    IF Len(arg.s) > 200
    THEN /\ Len(result.s) = 201
         /\ SubSeq(result.s, 1, 200) = SubSeq(arg.s, 1, 200)
         /\ result.s[201] = Ellipsis
    ELSE result = arg

C4_Witness == result # Undefined /\ Len(arg.s) = 201 /\ Len(result.s) = 201

Present(x) == x.t \notin {"undefined", "null"}

SectionShown(r) == view[r] # NoView /\ view[r].section # NoSection

\* C5: once the overview response has arrived and the page function has
\* ended, the "Latest Run Details" section is in the output exactly when the
\* response's latest_run is present.
C5_SectionIffLatestRun ==
  \A r \in RenderIds :
    (OnPage(r, "userOverview") /\ Done(r)
       /\ fetches[r]["fetchUserOverview"].st = "fulfilled") =>
      (SectionShown(r) <=> Present(Or(Response(r, "fetchUserOverview"), EmptyOverview).latest_run))

\* C6: with items the empty array the users table has exactly one body row,
\* the "No users found." placeholder spanning all four columns, and the count
\* shown is 0; with items non-empty there is one user row per item, in order,
\* and no placeholder.
C6_UsersRows ==
  \A r \in RenderIds :
    (OnPage(r, "tenantUsers") /\ pc[r] = "rendered") =>
      LET items == Response(r, "fetchUsersByTenant").items
      IN IF items = Arr(<<>>)
         THEN /\ view[r].rows =
                   <<[kind |-> "placeholder", colSpan |-> Len(view[r].columns),
                      text |-> "No users found."]>>
              /\ Len(view[r].columns) = 4
              /\ view[r].count = Num(0)
         ELSE items.t = "array" =>
                /\ Len(view[r].rows) = Len(items.items)
                /\ \A i \in 1..Len(items.items) :
                     /\ view[r].rows[i].kind = "user"
                     /\ view[r].rows[i].email = Or(items.items[i].email, Str(<<>>))

C6_Witness ==
  \E r \in RenderIds :
    /\ OnPage(r, "tenantUsers")
    /\ pc[r] = "rendered"
    /\ Response(r, "fetchUsersByTenant").items = Arr(<<>>)
    /\ Len(view[r].rows) = 1

\* C7: the metrics call carries tenantName=acme when the query selects acme
\* (with days=14 carried as 14), and carries no tenantName at all (undefined,
\* never the empty string) when the query parameter is absent or empty.
C7_TenantFilterArg ==
  \A r \in RenderIds : \A a \in ArgsOf(r, "fetchMetrics") :
    /\ (route[r].sp.tenantName = Str(Acme) => a[1].tenantName = Str(Acme))
    /\ (route[r].sp.tenantName \in {Undefined, Str(<<>>)} => a[1].tenantName = Undefined)
    /\ a[1].tenantName # Str(<<>>)
    /\ (route[r].sp.days = Str(<<"1", "4">>) => a[1].days = Num(14))

C7_Witness ==
  \E r \in RenderIds :
    /\ route[r] = DashboardRoute(Str(<<"1", "4">>), Str(Acme))
    /\ ArgsOf(r, "fetchMetrics") = {<<[days |-> Num(14), tenantName |-> Str(Acme)]>>}

\* C8: the days passed to fetchMetrics is 7 when the query parameter is
\* absent and is always one of the ranges the page offers (7, 14, 30): a
\* non-numeric or out-of-range value is never passed on.
C8_DaysNormalized ==
  \A r \in RenderIds : \A a \in ArgsOf(r, "fetchMetrics") :
    /\ (route[r].sp.days = Undefined => a[1].days = Num(DefaultDays))
    /\ a[1].days \in {Num(DaysOptions[i]) : i \in 1..Len(DaysOptions)}

Rejected(r) == \E f \in FetchNames : fetches[r][f].st = "rejected"

\* C9: a render issues each backend call at most once; once a call has
\* failed nothing is rendered, nothing is issued again and the finished
\* render is a failure.
C9_SingleAttempt ==
  \A r \in RenderIds :
    /\ \A f \in FetchNames :
         Cardinality({i \in 1..Len(calls[r]) : calls[r][i].fn = f}) <= 1
    /\ Rejected(r) => (view[r] = NoView /\ pc[r] \in {"awaiting", "failed"})

C9_Witness ==
  \E r \in RenderIds :
    /\ OnPage(r, "tenantUsers")
    /\ pc[r] = "failed"
    /\ fetches[r]["fetchUsersByTenant"].st = "rejected"
    /\ Len(calls[r]) = 1

\* What a page function returns for a route and the responses to its calls,
\* computed in one go: the view, or Thrown.
AloneView(rt, resp) ==
  CASE rt.page = "home" -> HomeView
    [] rt.page = "tenants" -> TenantsView(resp["fetchTenants"].val)
    [] rt.page = "tenantUsers" ->
         IF decodeURIComponent(rt.seg) = Thrown THEN Thrown
         ELSE TenantUsersView(TenantUsersBindings(rt), resp["fetchUsersByTenant"].val)
    [] rt.page = "userOverview" ->
         IF decodeURIComponent(rt.seg) = Thrown THEN Thrown
         ELSE UserOverviewView(UserOverviewBindings(rt), resp["fetchUserOverview"].val)
    [] rt.page = "dashboard" ->
         DashboardView(DashboardBindings(rt), resp["fetchTenants"].val,
                       resp["fetchMetrics"].val)

\* C10: whatever the interleaving, a finished render is the failure or the
\* view its own route and its own responses determine, and an idle slot
\* holds nothing of an earlier load.
C10_RenderIsolated ==
  \A r \in RenderIds :
    /\ Done(r) =>
         IF Rejected(r) THEN pc[r] = "failed" /\ view[r] = NoView
         ELSE LET v == AloneView(route[r], fetches[r])
              IN IF v = Thrown THEN pc[r] = "failed" /\ view[r] = NoView
                 ELSE pc[r] = "rendered" /\ view[r] = v
    /\ pc[r] = "idle" =>
         /\ route[r] = NoRoute
         /\ locals[r] = NoLocals
         /\ calls[r] = <<>>
         /\ view[r] = NoView
         /\ settled[r] = <<>>
         /\ \A f \in FetchNames : fetches[r][f] = NotIssued

C10_Witness ==
  \E r1, r2 \in RenderIds :
    /\ r1 # r2
    /\ OnPage(r1, "dashboard") /\ OnPage(r2, "dashboard")
    /\ pc[r1] = "rendered" /\ pc[r2] = "rendered"
    /\ route[r1] # route[r2]
    /\ view[r1].tenantDefault # view[r2].tenantDefault

\* The overview of a user without runs: no run rows, and no latest run nor
\* anything that hangs off it.
NoRuns(d) ==
  /\ Items(d.runs) = <<>>
  /\ ~Present(d.latest_run)
  /\ ~Present(d.latest_run_events)
  /\ ~Present(d.latest_run_decisions)
  /\ ~Present(d.latest_run_email_attempts)
  /\ ~Present(d.latest_run_features)

\* C11: when fetchUserOverview has succeeded for a user with no runs, the
\* finished render is a success whose runs table holds exactly the one
\* "No runs found." placeholder row and which shows no latest-run section.
C11_EmptyStateNoRuns ==
  \A r \in RenderIds :
    (OnPage(r, "userOverview") /\ Done(r)
       /\ fetches[r]["fetchUserOverview"].st = "fulfilled"
       /\ NoRuns(Or(Response(r, "fetchUserOverview"), EmptyOverview))) =>
      /\ pc[r] = "rendered"
      /\ view[r].runs = <<[kind |-> "placeholder", colSpan |-> 4, text |-> "No runs found."]>>
      /\ view[r].section = NoSection

C11_Witness ==
  \E r \in RenderIds :
    /\ OnPage(r, "userOverview")
    /\ pc[r] = "rendered"
    /\ Response(r, "fetchUserOverview") # Null
    /\ Response(r, "fetchUserOverview").runs = Undefined
    /\ Response(r, "fetchUserOverview").latest_run = Null
    /\ Len(view[r].runs) = 1

\* The client calls a page of the given kind makes.
ReadsOf(page) ==
  CASE page = "tenants" -> {"fetchTenants"}
    [] page = "tenantUsers" -> {"fetchUsersByTenant"}
    [] page = "userOverview" -> {"fetchUserOverview"}
    [] page = "dashboard" -> {"fetchTenants", "fetchMetrics"}
    [] OTHER -> {}

\* C12: whatever pages are loaded, in whatever order, every call a render
\* has issued is one of the four read calls fetchTenants, fetchUsersByTenant,
\* fetchUserOverview and fetchMetrics, and is one its page reads from; no
\* other call (no write, no status transition) is ever issued.
C12_OnlyReadCalls ==
  \A r \in RenderIds : \A i \in 1..Len(calls[r]) :
    /\ calls[r][i].fn \in
         {"fetchTenants", "fetchUsersByTenant", "fetchUserOverview", "fetchMetrics"}
    /\ calls[r][i].fn \in ReadsOf(route[r].page)

C12_Witness ==
  \E r1, r2 \in RenderIds :
    /\ OnPage(r1, "dashboard") /\ pc[r1] = "rendered" /\ Len(calls[r1]) = 2
    /\ OnPage(r2, "userOverview") /\ pc[r2] = "rendered" /\ Len(calls[r2]) = 1

\* C13: provided every backend call is eventually answered, every render
\* that is waiting for its calls eventually ends, rendered or failed, a
\* dashboard render with one call failed and the other still in flight
\* included.
C13_RenderTerminates ==
  \A r \in LiveRenders : (pc[r] = "awaiting") ~> Done(r)

C13_Witness ==
  \E r \in LiveRenders :
    /\ OnPage(r, "dashboard")
    /\ pc[r] = "failed"
    /\ fetches[r]["fetchTenants"].st = "rejected"
    /\ fetches[r]["fetchMetrics"].st = "pending"

JoinedCalls == {"fetchTenants", "fetchMetrics"}

\* C14: a dashboard render issues the tenants call and the metrics call
\* together, before either is answered (there is no state in which one has
\* been answered and the other not yet issued), and two dashboard renders of
\* the same route whose calls got the same answers end the same way,
\* whichever call was answered first.
C14_IssuedTogetherOrderFree ==
  /\ \A r \in RenderIds :
       (OnPage(r, "dashboard") /\ pc[r] # "idle") =>
         /\ Issued(r) = JoinedCalls
         /\ {calls[r][i].fn : i \in 1..Len(calls[r])} = JoinedCalls
         /\ (settled[r] = <<>> => \A f \in JoinedCalls : fetches[r][f] = Pending)
  /\ \A r1, r2 \in RenderIds :
       (/\ OnPage(r1, "dashboard") /\ OnPage(r2, "dashboard")
        /\ route[r1] = route[r2]
        /\ fetches[r1] = fetches[r2]
        /\ Done(r1) /\ Done(r2)) =>
         (pc[r1] = pc[r2] /\ view[r1] = view[r2])

C14_Witness ==
  \E r1, r2 \in RenderIds :
    /\ OnPage(r1, "dashboard") /\ OnPage(r2, "dashboard")
    /\ route[r1] = route[r2]
    /\ fetches[r1] = fetches[r2]
    /\ pc[r1] = "rendered" /\ pc[r2] = "rendered"
    /\ settled[r1] = <<"fetchTenants", "fetchMetrics">>
    /\ settled[r2] = <<"fetchMetrics", "fetchTenants">>
    /\ view[r1] = view[r2]

\* The entries of a distribution as the backend sent them.
Entries(d) == IF d.t = "array" THEN d.items ELSE <<>>

C16_BarsFollowBackend ==
  \A r \in RenderIds :
    (OnPage(r, "dashboard") /\ pc[r] = "rendered") =>
      LET dist == Response(r, "fetchMetrics").distributions
          rules == Entries(dist.decisions_by_rule)
          tpls == Entries(dist.attempts_by_template_status)
      IN /\ Len(view[r].decisionsByRule) = Len(rules)
         /\ \A i \in 1..Len(rules) :
              view[r].decisionsByRule[i] = [name |-> rules[i].rule, value |-> CountOf(rules[i])]
         /\ Len(view[r].attemptsByTplStatus) = Len(tpls)
         /\ \A i \in 1..Len(tpls) :
              /\ view[r].attemptsByTplStatus[i].name =
                   Str(tpls[i].template_key.s \o <<":">> \o tpls[i].status.s)
              /\ view[r].attemptsByTplStatus[i].value = CountOf(tpls[i])

C16_Witness ==
  \E r \in RenderIds :
    /\ OnPage(r, "dashboard")
    /\ pc[r] = "rendered"
    /\ Len(view[r].decisionsByRule) = 2
    /\ view[r].decisionsByRule[1].name = Str(<<"q">>)
    /\ view[r].decisionsByRule[2].name = Str(<<"r">>)
    /\ Response(r, "fetchMetrics").distributions.attempts_by_template_status = Undefined
    /\ view[r].attemptsByTplStatus = <<>>

\* C17: a rendered tenant list has one row per tenant of the response, in
\* the response's order, each linking to /tenants/<percent-encoded
\* tenantName>/users; with the list empty or absent it has exactly the one
\* "No tenants found." placeholder row.
C17_TenantRows ==
  \A r \in RenderIds :
    (OnPage(r, "tenants") /\ pc[r] = "rendered") =>
      LET ts == Entries(Response(r, "fetchTenants").tenants)
      IN IF Len(ts) = 0
         THEN view[r].rows =
                <<[kind |-> "placeholder", colSpan |-> 3, text |-> "No tenants found."]>>
         ELSE /\ Len(view[r].rows) = Len(ts)
              /\ \A i \in 1..Len(ts) :
                   /\ view[r].rows[i].kind = "tenant"
                   /\ view[r].rows[i].tenantName = ts[i].tenantName
                   /\ view[r].rows[i].count = ts[i].count
                   /\ view[r].rows[i].href =
                        <<"/tenants/">> \o encodeURIComponent(ts[i].tenantName.s) \o <<"/users">>

C17_Witness ==
  \E r \in RenderIds :
    /\ OnPage(r, "tenants")
    /\ pc[r] = "rendered"
    /\ Len(view[r].rows) = 2
    /\ view[r].rows[1].href = <<"/tenants/", "a", "%", "2", "0", "b", "/users">>
    /\ view[r].rows[2].tenantName = Str(Acme)

\* The first argument of the one call render r made, when the page function
\* got as far as calling.
CalledWith(r, t) == Len(calls[r]) = 1 /\ calls[r][1].args[1] = Str(t)

\* C18: a tenant-users render reached by a tenant-list link built from the
\* name t calls fetchUsersByTenant with exactly t, and a user-overview render
\* reached by a users-row link built from the email e calls fetchUserOverview
\* with exactly e: the single decode undoes the encoding and never throws,
\* for names holding '%', '/', '+' or spaces too.
C18_LinkRoundTrip ==
  \A r \in RenderIds :
    (route[r].page \in {"tenantUsers", "userOverview"}) =>
      /\ \E t \in LinkNames : route[r].seg = encodeURIComponent(t)
      /\ \A t \in LinkNames : route[r].seg = encodeURIComponent(t) => CalledWith(r, t)

C18_Witness ==
  \E r \in RenderIds :
    /\ OnPage(r, "userOverview")
    /\ route[r].seg = <<"%", "2", "5", "%", "2", "F">>
    /\ CalledWith(r, <<"%", "/">>)
    /\ pc[r] = "rendered"

\* The hint of a card whose count over 7 days is the given kpis field, for
\* the range of n days.
RangeHint(n, field) == Template(<<"Last ", Num(n), "d: ", RangeCount(field, n)>>)

\* C19: in a dashboard rendered for one of the ranges 7, 14 and 30, the
\* Runs, Events, Decisions and Queued Attempts cards carry the hint
\* "Last Nd: " followed by the count over that same range of N days, and the
\* Total Users and Active Users cards carry no hint.
C19_HintMatchesRange ==
  \A r \in RenderIds :
    (OnPage(r, "dashboard") /\ pc[r] = "rendered") =>
      \A a \in ArgsOf(r, "fetchMetrics") :
        (a[1].days.t = "number" /\ a[1].days.v \in {7, 14, 30}) =>
          /\ view[r].kpis[1].hint = Undefined
          /\ view[r].kpis[2].hint = Undefined
          /\ view[r].kpis[3].hint = RangeHint(a[1].days.v, "runs_7d")
          /\ view[r].kpis[4].hint = RangeHint(a[1].days.v, "events_7d")
          /\ view[r].kpis[5].hint = RangeHint(a[1].days.v, "decisions_7d")
          /\ view[r].kpis[6].hint = RangeHint(a[1].days.v, "queued_attempts_7d")

\* The rows of a table of the latest-run section that show a JSON value.
JsonRows(rows) == {i \in 1..Len(rows) : "json" \in DOMAIN rows[i]}

\* C20: when the overview response has a latest_run, the finished render is
\* a success in which every event, decision and feature of the response has
\* its row and every JSON cell holds a string, rows whose payload, rationale
\* or value is absent included.
C20_JsonRowsAlwaysShown ==
  \A r \in RenderIds :
    (/\ OnPage(r, "userOverview") /\ Done(r)
     /\ fetches[r]["fetchUserOverview"].st = "fulfilled"
     /\ Present(Or(Response(r, "fetchUserOverview"), EmptyOverview).latest_run)) =>
      /\ pc[r] = "rendered"
      /\ LET d == Response(r, "fetchUserOverview")
             sec == view[r].section
         IN /\ Len(Entries(Or(d.latest_run_events, Undefined))) > 0 =>
                 Cardinality(JsonRows(sec.events)) = Len(d.latest_run_events.items)
            /\ Len(Entries(Or(d.latest_run_decisions, Undefined))) > 0 =>
                 Cardinality(JsonRows(sec.decisions)) = Len(d.latest_run_decisions.items)
            /\ Len(Entries(Or(d.latest_run_features, Undefined))) > 0 =>
                 Cardinality(JsonRows(sec.features)) = Len(d.latest_run_features.items)
            /\ \A i \in JsonRows(sec.events) : sec.events[i].json.t = "string"
            /\ \A i \in JsonRows(sec.decisions) : sec.decisions[i].json.t = "string"
            /\ \A i \in JsonRows(sec.features) : sec.features[i].json.t = "string"

\* A render invoked by a submission of the search form.
Searched(r) == route[r].page = "tenantUsers" /\ "from" \in DOMAIN route[r]

\* C21: a render of the tenant users page that a search submission led to
\* has a query string carrying only q, so it calls fetchUsersByTenant with
\* limit 50 and offset 0, whatever limit and offset the page submitted from
\* was loaded with, and with the tenant name of the same path parameter.
C21_SearchResetsPaging ==
  \A r \in RenderIds :
    Searched(r) =>
      /\ route[r].sp.q \in TypedQueries
      /\ route[r].sp.limit = Undefined
      /\ route[r].sp.offset = Undefined
      /\ Len(calls[r]) = 1
      /\ calls[r][1].args =
           <<decodeURIComponent(route[r].seg), route[r].sp.q,
             Num(50), Num(0)>>

C21_Witness ==
  \E r \in RenderIds :
    /\ Searched(r)
    /\ pc[r] = "rendered"
    /\ route[r].from.limit = Str(<<"5">>)
    /\ route[r].from.offset = Str(<<"5">>)
    /\ calls[r][1].args = <<Str(Acme), Str(<<"a">>), Num(50), Num(0)>>

\* C22: after any sequence of accepted inserts no two rows of email_attempts
\* are for the same (user_id, template_key, stage), rows inserted with
\* unique_key NULL included.
C22_OneAttemptPerStage ==
  \A a, b \in Rows(email_attempts) :
    (/\ a.user_id = b.user_id
     /\ a.template_key = b.template_key
     /\ a.stage = b.stage) => a.id = b.id

\* The (user_id, name) pairs of a table or of a read of the view.
Pairs(table) == {<<x.user_id, x.name>> : x \in Rows(table)}
Of(table, pair) ==
  {x \in Rows(table) : x.user_id = pair[1] /\ x.name = pair[2]}
Newest(rows) ==
  {x \in rows : \A y \in rows : y.computed_at.v <= x.computed_at.v}

\* C23: a read of latest_features has exactly one row for every (user_id,
\* name) pair of the features table read and no other row; the row's
\* computed_at is the greatest of the pair's rows and its value is that of
\* a row of the pair with that computed_at.
C23_LatestPerPair ==
  LET table == latest_features.of
      rows == latest_features.rows IN
  /\ Pairs(rows) = Pairs(table)
  /\ Len(rows) = Cardinality(Pairs(table))
  /\ \A i \in DOMAIN rows :
       \E x \in Newest(Of(table, <<rows[i].user_id, rows[i].name>>)) :
         rows[i].computed_at = x.computed_at /\ rows[i].value = x.value

C23_Witness ==
  /\ Len(latest_features.rows) = 2
  /\ \E x, y \in Rows(latest_features.of) :
       /\ x.user_id = y.user_id /\ x.name = y.name
       /\ x.run_id # y.run_id
       /\ x.computed_at.v < y.computed_at.v
       /\ x.value # y.value
       /\ \E i \in DOMAIN latest_features.rows :
            /\ latest_features.rows[i].user_id = y.user_id
            /\ latest_features.rows[i].value = y.value

=============================================================================
